---------------------------- MODULE Spec2Model ----------------------------
(***************************************************************************)
(* Miner-id coinbase document protocol of src/src/miner_id.cpp:            *)
(* FindMinerId scans the outputs of a coinbase transaction, and            *)
(* MinerId::SetStaticCoinbaseDocument / SetDynamicCoinbaseDocument         *)
(* validate the documents and verify the signature chain.                  *)
(*                                                                         *)
(* Representation.                                                         *)
(*   text strings   sequences of one-character strings                     *)
(*   byte buffers   tagged records: [t |-> "json", doc, fmt] a JSON text,  *)
(*                  [t |-> "sig", key, msg] the bytes of a signature by    *)
(*                  key over msg, [t |-> "junk"] other bytes,              *)
(*                  [t |-> "empty"] the empty buffer                       *)
(*   JSON values    tagged records: "null" (what UniValue's operator[]     *)
(*                  gives for a missing key), "str", "num", "arr", "obj"   *)
(*   key bytes      sequences of numbers 0..255                            *)
(***************************************************************************)
EXTENDS Integers, Sequences, FiniteSets, TLC

(***************************************************************************)
(* Text strings, hexadecimal conversions, std::stoi.                       *)
(***************************************************************************)
HexDigits == <<"0","1","2","3","4","5","6","7","8","9","a","b","c","d","e","f">>

IsHexDigit(c) == \E k \in 1..16 : HexDigits[k] = c

HexVal(c) == (CHOOSE k \in 1..16 : HexDigits[k] = c) - 1

IsDecDigit(c) == \E k \in 1..10 : HexDigits[k] = c

\* The byte value of a character of the model's alphabet (ASCII).
CharCode(c) ==
    CASE c = " " -> 32
      [] c = "." -> 46
      [] c = "x" -> 120
      [] c = "z" -> 122
      [] IsDecDigit(c) -> 48 + HexVal(c)
      [] OTHER -> 87 + HexVal(c)

\* HexStr: every byte of the string becomes its two lower-case hex digits.
RECURSIVE HexStr(_)
HexStr(s) ==
    IF s = <<>> THEN <<>>
    ELSE <<HexDigits[(CharCode(Head(s)) \div 16) + 1],
           HexDigits[(CharCode(Head(s)) % 16) + 1]>> \o HexStr(Tail(s))

\* ParseHex on a text string: pairs of hex digits up to the first character
\* that does not start such a pair (white space between pairs is skipped).
RECURSIVE ParseHexChars(_)
ParseHexChars(s) ==
    IF s = <<>> THEN <<>>
    ELSE IF Head(s) = " " THEN ParseHexChars(Tail(s))
    ELSE IF Len(s) >= 2 /\ IsHexDigit(s[1]) /\ IsHexDigit(s[2])
         THEN <<16 * HexVal(s[1]) + HexVal(s[2])>> \o ParseHexChars(Tail(Tail(s)))
    ELSE <<>>

\* uint256S: the leading hex digits of the string.
RECURSIVE Uint256S(_)
Uint256S(s) ==
    IF s = <<>> \/ ~IsHexDigit(Head(s)) THEN <<>>
    ELSE <<Head(s)>> \o Uint256S(Tail(s))

RECURSIVE SkipSpaces(_)
SkipSpaces(s) == IF s # <<>> /\ Head(s) = " " THEN SkipSpaces(Tail(s)) ELSE s

RECURSIVE DigitPrefix(_)
DigitPrefix(s) ==
    IF s = <<>> \/ ~IsDecDigit(Head(s)) THEN <<>>
    ELSE <<Head(s)>> \o DigitPrefix(Tail(s))

RECURSIVE DecValue(_)
DecValue(d) ==
    IF d = <<>> THEN 0 ELSE 10 * DecValue(SubSeq(d, 1, Len(d) - 1)) + HexVal(d[Len(d)])

\* std::stoi: leading white space is skipped, the longest digit prefix is
\* converted and what follows it is ignored; with no digit, or a value out
\* of the range of int, it throws (ok = FALSE).
StoI(s) ==
    LET d == DigitPrefix(SkipSpaces(s))
    IN  IF d = <<>> \/ DecValue(d) > 2147483647
        THEN [ok |-> FALSE, v |-> 0]
        ELSE [ok |-> TRUE, v |-> DecValue(d)]

(***************************************************************************)
(* JSON values (UniValue) and JSON text.                                   *)
(***************************************************************************)
Null == [t |-> "null"]

JStr(s) == [t |-> "str", v |-> s]

\* The JSON string holding the hexadecimal text of a byte buffer.
JHexOf(b) == [t |-> "str", hexof |-> b]

\* A JSON number; the model holds integers only.
JNum(n) == [t |-> "num", n |-> n]

JArr(a) == [t |-> "arr", a |-> a]

\* UniValue::operator[] with a key: the member, or null when the value is
\* no object or has no such key.
Field(o, name) == IF o.t = "obj" /\ name \in DOMAIN o THEN o[name] ELSE Null

\* UniValue::exists
Exists(o, name) == o.t = "obj" /\ name \in DOMAIN o

isNull(v) == v.t = "null"

isStr(v) == v.t = "str"

isNum(v) == v.t = "num"

isArray(v) == v.t = "arr"

isObject(v) == v.t = "obj"

\* ParseHex of a JSON string's contents.
ParseHex(s) == IF "hexof" \in DOMAIN s THEN s.hexof ELSE ParseHexChars(s.v)

\* UniValue::read: the parsed value of a byte buffer that is JSON text.
ReadOk(buf) == buf.t = "json"

Read(buf) == buf.doc

\* UniValue::write(): the compact serialisation of a parsed value.
Write(doc) == [t |-> "json", doc |-> doc, fmt |-> "compact"]

(***************************************************************************)
(* Crypto capability: SHA-256 then CPubKey::Verify.  A key of no bytes is  *)
(* not a valid public key and verifies nothing.                            *)
(***************************************************************************)
Sign(key, msg) == [t |-> "sig", key |-> key, msg |-> msg]

verify(msg, pub_key, sig) ==
    /\ pub_key # <<>>
    /\ sig.t = "sig"
    /\ sig.key = pub_key
    /\ sig.msg = msg

(***************************************************************************)
(* parseDataRefs (anonymous namespace).                                    *)
(***************************************************************************)
\* One element of dataRefs.refs has the required shape.
DataRefShapeOk(r) ==
    /\ Exists(r, "brfcIds") /\ isArray(r.brfcIds)
    /\ Exists(r, "txid") /\ isStr(r.txid)
    /\ Exists(r, "vout") /\ isNum(r.vout)
    /\ \A k \in 1..Len(r.brfcIds.a) : isStr(r.brfcIds.a[k])

DataRef(r) ==
    [brfcIds |-> [k \in 1..Len(r.brfcIds.a) |-> r.brfcIds.a[k].v],
     txid |-> Uint256S(r.txid.v),
     n |-> r.vout.n]

\* Mutant: elements without the required shape are left out.
parseDataRefs_SkipBad(coinbaseDocument) ==
    IF ~Exists(coinbaseDocument, "dataRefs")
       \/ ~isObject(coinbaseDocument.dataRefs)
       \/ ~Exists(coinbaseDocument.dataRefs, "refs")
       \/ ~isArray(coinbaseDocument.dataRefs.refs)
    THEN [ok |-> TRUE, refs |-> <<>>]
    ELSE LET good == SelectSeq(coinbaseDocument.dataRefs.refs.a, DataRefShapeOk)
         IN  [ok |-> TRUE, refs |-> [k \in 1..Len(good) |-> DataRef(good[k])]]

\* ok: the function's return value; refs: the vector it filled, read by the
\* callers only when ok.
parseDataRefs(coinbaseDocument) ==
    IF ~Exists(coinbaseDocument, "dataRefs")
    THEN [ok |-> TRUE, refs |-> <<>>]
    ELSE LET data_refs == coinbaseDocument.dataRefs
         IN  IF ~isObject(data_refs) \/ ~Exists(data_refs, "refs")
                \/ ~isArray(data_refs.refs)
             THEN [ok |-> FALSE, refs |-> <<>>]
             ELSE LET refs == data_refs.refs.a
                  IN  IF \A k \in 1..Len(refs) : DataRefShapeOk(refs[k])
                      THEN [ok |-> TRUE,
                            refs |-> [k \in 1..Len(refs) |-> DataRef(refs[k])]]
                      ELSE [ok |-> FALSE, refs |-> <<>>]

(***************************************************************************)
(* CoinbaseDocument and MinerId objects.                                   *)
(***************************************************************************)
NoDataRefs == [some |-> FALSE, refs |-> <<>>]

\* CoinbaseDocument's constructor: dataRefs absent.
CoinbaseDocument(version, height, prevMinerId, prevMinerIdSig, minerId, vctx) ==
    [version |-> version, height |-> height, prevMinerId |-> prevMinerId,
     prevMinerIdSig |-> prevMinerIdSig, minerId |-> minerId, vctx |-> vctx,
     dataRefs |-> NoDataRefs]

SetDataRefs(cd, refs) == [cd EXCEPT !.dataRefs = [some |-> TRUE, refs |-> refs]]

\* A default-constructed CoinbaseDocument.
EmptyCoinbaseDocument ==
    CoinbaseDocument(<<>>, 0, <<>>, JStr(<<>>), <<>>, [txid |-> <<>>, n |-> 0])

EmptyBuffer == [t |-> "empty"]

\* MinerId(): a default-constructed MinerId.
EmptyMinerId ==
    [coinbaseDocument_ |-> EmptyCoinbaseDocument,
     staticDocumentJson_ |-> EmptyBuffer,
     signatureStaticDocument_ |-> EmptyBuffer]

SUPPORTED_VERSIONS == {<<"0", ".", "1">>, <<"0", ".", "2">>}

(***************************************************************************)
(* MinerId::SetStaticCoinbaseDocument.                                     *)
(***************************************************************************)
\* The checks of the function in the order the code makes them.
StaticStages ==
    <<"version", "height_type", "stoi", "height", "prevMinerId",
      "prevMinerIdSig", "minerId", "vctx", "vctxTxid", "vctxVout",
      "verify_self", "version_branch", "verify_link", "parseDataRefs">>

\* cd_json, the message of the static self-signature.
StaticSelfMessage(document) == Write(document)

\* Mutant: the concatenation is signed as it is under both versions.
LinkageDataToSign_Raw(version, prevMinerId, minerId, vctxTxid) ==
    [t |-> "chars", c |-> prevMinerId \o minerId \o vctxTxid]

\* dataToSign, the message of the linkage signature, once the version is
\* one of the two the branch knows.
LinkageDataToSign(version, prevMinerId, minerId, vctxTxid) ==
    LET dataToSign == prevMinerId \o minerId \o vctxTxid
    IN  [t |-> "chars",
         c |-> IF version = <<"0", ".", "1">> THEN dataToSign ELSE HexStr(dataToSign)]

\* Mutant: the linkage step knows version "0.1" only.
VersionBranchKnown_Only01(version) == version = <<"0", ".", "1">>

VersionBranchKnown(version) ==
    version = <<"0", ".", "1">> \/ version = <<"0", ".", "2">>

\* Mutant: the height is not compared.
StaticHeightMatches_Always(height, blockHeight) == TRUE

\* block_height != blockHeight, negated
StaticHeightMatches(height, blockHeight) == StoI(height.v).v = blockHeight

\* verify(cd_json, minerIdBytes, signatureBytes)
StaticSelfVerified(document, signatureBytes) ==
    verify(StaticSelfMessage(document), ParseHex(document.minerId), signatureBytes)

\* Mutant: the linkage signature is not checked.
StaticLinkageVerified_Skipped(document) == TRUE

\* verify(dataToSign, prevMinerIdBytes, signaturePrevMinerId)
StaticLinkageVerified(document) ==
    verify(LinkageDataToSign(document.version.v, document.prevMinerId.v,
                             document.minerId.v, document.vctx.txId.v),
           ParseHex(document.prevMinerId), ParseHex(document.prevMinerIdSig))

\* The first check that fails ("none": every check passes; "stoi": std::stoi
\* throws).
StaticFailure(document, signatureBytes, blockHeight) ==
    LET version == Field(document, "version")
        height == Field(document, "height")
        prevMinerId == Field(document, "prevMinerId")
        prevMinerIdSig == Field(document, "prevMinerIdSig")
        minerId == Field(document, "minerId")
        vctx == Field(document, "vctx")
        vctxTxid == Field(vctx, "txId")
        vctxVout == Field(vctx, "vout")
    IN  IF ~isStr(version) \/ version.v \notin SUPPORTED_VERSIONS THEN "version"
        ELSE IF ~isStr(height) THEN "height_type"
        ELSE IF ~StoI(height.v).ok THEN "stoi"
        ELSE IF ~StaticHeightMatches(height, blockHeight) THEN "height"
        ELSE IF ~isStr(prevMinerId) THEN "prevMinerId"
        ELSE IF ~isStr(prevMinerIdSig) THEN "prevMinerIdSig"
        ELSE IF ~isStr(minerId) THEN "minerId"
        ELSE IF ~isObject(vctx) THEN "vctx"
        ELSE IF ~isStr(vctxTxid) THEN "vctxTxid"
        ELSE IF ~isNum(vctxVout) THEN "vctxVout"
        ELSE IF ~StaticSelfVerified(document, signatureBytes) THEN "verify_self"
        ELSE IF ~VersionBranchKnown(version.v) THEN "version_branch"
        ELSE IF ~StaticLinkageVerified(document) THEN "verify_link"
        ELSE IF ~parseDataRefs(document).ok THEN "parseDataRefs"
        ELSE "none"

\* The diagnostic the function logs when it fails at a check.
StaticLogMessage(stage) ==
    CASE stage = "height" -> "Block height in coinbase document is incorrect"
      [] stage = "verify_self" -> "Signature of static coinbase document is invalid"
      [] stage = "version_branch" -> "Unsupported version in miner id"
      [] stage = "verify_link" -> "Signature of previous miner id in coinbase document is invalid"
      [] OTHER -> "One or more required parameters from coinbase document missing or incorrect"

\* The MinerId after a successful call.
StaticAccepted(document, signatureBytes) ==
    LET coinbaseDocument ==
            CoinbaseDocument(document.version.v,
                             StoI(document.height.v).v,
                             document.prevMinerId.v,
                             document.prevMinerIdSig,
                             document.minerId.v,
                             [txid |-> Uint256S(document.vctx.txId.v),
                              n |-> document.vctx.vout.n])
        dataRefs == parseDataRefs(document).refs
    IN  [coinbaseDocument_ |->
             IF Len(dataRefs) # 0 THEN SetDataRefs(coinbaseDocument, dataRefs)
             ELSE coinbaseDocument,
         staticDocumentJson_ |-> Write(document),
         signatureStaticDocument_ |-> signatureBytes]

\* The position of a stage in a list of stages (0: not in it).
StageIndex(stages, stage) ==
    IF \E k \in 1..Len(stages) : stages[k] = stage
    THEN CHOOSE k \in 1..Len(stages) : stages[k] = stage
    ELSE 0

\* The checks a call made, in order: all of them, or those up to the failing one.
StagesRun(stages, failure) ==
    IF failure = "none" THEN stages ELSE SubSeq(stages, 1, StageIndex(stages, failure))

\* One call of verify, as the traces record it.
VerifyCall(step, msg, key, sig) ==
    [step |-> step, msg |-> msg, key |-> key, sig |-> sig, ok |-> verify(msg, key, sig)]

\* The calls of verify a call of the function made, in order.
StaticVerifyCalls(document, signatureBytes, stages) ==
    (IF StageIndex(stages, "verify_self") = 0 THEN <<>>
     ELSE <<VerifyCall("verify_self", StaticSelfMessage(document),
                       ParseHex(document.minerId), signatureBytes)>>)
    \o
    (IF StageIndex(stages, "verify_link") = 0 THEN <<>>
     ELSE <<VerifyCall("verify_link",
                       LinkageDataToSign(document.version.v, document.prevMinerId.v,
                                         document.minerId.v, document.vctx.txId.v),
                       ParseHex(document.prevMinerId),
                       ParseHex(document.prevMinerIdSig))>>)

\* Mutant: a static text and signature stored before the call are kept.
SetStaticCoinbaseDocument_KeepText(self, document, signatureBytes, blockHeight) ==
    LET failure == StaticFailure(document, signatureBytes, blockHeight)
        stages == StagesRun(StaticStages, failure)
        accepted == StaticAccepted(document, signatureBytes)
    IN  [ret |-> IF failure = "none" THEN "true"
                 ELSE IF failure = "stoi" THEN "throw" ELSE "false",
         self |-> IF failure # "none" THEN self
                  ELSE IF self = EmptyMinerId THEN accepted
                  ELSE [accepted EXCEPT
                            !.staticDocumentJson_ = self.staticDocumentJson_,
                            !.signatureStaticDocument_ = self.signatureStaticDocument_],
         log |-> IF failure \in {"none", "stoi"} THEN <<>>
                 ELSE <<StaticLogMessage(failure)>>,
         stages |-> stages,
         calls |-> StaticVerifyCalls(document, signatureBytes, stages)]

\* Mutant: data refs attached before the call survive an accepted document
\* that has none.
SetStaticCoinbaseDocument_KeepRefs(self, document, signatureBytes, blockHeight) ==
    LET failure == StaticFailure(document, signatureBytes, blockHeight)
        stages == StagesRun(StaticStages, failure)
        accepted == StaticAccepted(document, signatureBytes)
    IN  [ret |-> IF failure = "none" THEN "true"
                 ELSE IF failure = "stoi" THEN "throw" ELSE "false",
         self |-> IF failure # "none" THEN self
                  ELSE IF accepted.coinbaseDocument_.dataRefs.some THEN accepted
                  ELSE [accepted EXCEPT !.coinbaseDocument_.dataRefs =
                                            self.coinbaseDocument_.dataRefs],
         log |-> IF failure \in {"none", "stoi"} THEN <<>>
                 ELSE <<StaticLogMessage(failure)>>,
         stages |-> stages,
         calls |-> StaticVerifyCalls(document, signatureBytes, stages)]

\* The whole call.  ret: "true", "false" or "throw" (std::stoi's exception
\* leaves the function); self: the object after the call; log: the
\* diagnostics written; stages: the checks made; calls: the calls of verify.
SetStaticCoinbaseDocument(self, document, signatureBytes, blockHeight) ==
    LET failure == StaticFailure(document, signatureBytes, blockHeight)
        stages == StagesRun(StaticStages, failure)
    IN  [ret |-> IF failure = "none" THEN "true"
                 ELSE IF failure = "stoi" THEN "throw" ELSE "false",
         self |-> IF failure = "none" THEN StaticAccepted(document, signatureBytes)
                  ELSE self,
         log |-> IF failure \in {"none", "stoi"} THEN <<>>
                 ELSE <<StaticLogMessage(failure)>>,
         stages |-> stages,
         calls |-> StaticVerifyCalls(document, signatureBytes, stages)]

(***************************************************************************)
(* MinerId::SetDynamicCoinbaseDocument.                                    *)
(***************************************************************************)
DynamicStages ==
    <<"version", "height_type", "height", "prevMinerId", "prevMinerIdSig",
      "minerId", "dynamicMinerId", "vctx", "vctxTxid", "vctxVout",
      "verify_dynamic", "parseDataRefs">>

\* dataToSign, the message of the dynamic update signature.
DynamicDataToSign(self, document) ==
    [t |-> "cat",
     parts |-> <<self.staticDocumentJson_, self.signatureStaticDocument_, Write(document)>>]

\* GetDataRefs() of the current document has a value.
HasDataRefs(self) == self.coinbaseDocument_.dataRefs.some

\* height.get_int() != blockHeight, negated
DynamicHeightMatches(height, blockHeight) == height.n = blockHeight

\* dynamicMinerIdPubKey.Verify(hash of dataToSign, signatureBytes)
DynamicVerified(self, document, signatureBytes) ==
    verify(DynamicDataToSign(self, document), ParseHex(document.dynamicMinerId),
           signatureBytes)

\* Mutant: only dynamicMinerId and the signature are checked.
DynamicFailure_NoTypeChecks(self, document, signatureBytes, blockHeight) ==
    IF ~isStr(Field(document, "dynamicMinerId")) THEN "dynamicMinerId"
    ELSE IF ~DynamicVerified(self, document, signatureBytes) THEN "verify_dynamic"
    ELSE IF ~HasDataRefs(self) /\ ~parseDataRefs(document).ok THEN "parseDataRefs"
    ELSE "none"

\* The first check that fails ("none": every check passes).
DynamicFailure(self, document, signatureBytes, blockHeight) ==
    LET version == Field(document, "version")
        height == Field(document, "height")
        prevMinerId == Field(document, "prevMinerId")
        prevMinerIdSig == Field(document, "prevMinerIdSig")
        minerId == Field(document, "minerId")
        dynamicMinerId == Field(document, "dynamicMinerId")
        vctx == Field(document, "vctx")
    IN  IF ~isNull(version) /\ (~isStr(version) \/ version.v \notin SUPPORTED_VERSIONS)
        THEN "version"
        ELSE IF ~isNull(height) /\ ~isNum(height) THEN "height_type"
        ELSE IF ~isNull(height) /\ ~DynamicHeightMatches(height, blockHeight) THEN "height"
        ELSE IF ~isNull(prevMinerId) /\ ~isStr(prevMinerId) THEN "prevMinerId"
        ELSE IF ~isNull(prevMinerIdSig) /\ ~isStr(prevMinerIdSig) THEN "prevMinerIdSig"
        ELSE IF ~isNull(minerId) /\ ~isStr(minerId) THEN "minerId"
        ELSE IF ~isStr(dynamicMinerId) THEN "dynamicMinerId"
        ELSE IF ~isNull(vctx) /\ ~isObject(vctx) THEN "vctx"
        ELSE IF ~isNull(vctx) /\ ~isStr(Field(vctx, "txId")) THEN "vctxTxid"
        ELSE IF ~isNull(vctx) /\ ~isNum(Field(vctx, "vout")) THEN "vctxVout"
        ELSE IF ~DynamicVerified(self, document, signatureBytes) THEN "verify_dynamic"
        ELSE IF ~HasDataRefs(self) /\ ~parseDataRefs(document).ok THEN "parseDataRefs"
        ELSE "none"

DynamicLogMessage(stage) ==
    CASE stage = "height" -> "Block height in coinbase document is incorrect"
      [] stage = "verify_dynamic" -> "Signature of dynamic miner id in coinbase document is invalid"
      [] OTHER -> "Structure in coinbase document is incorrect (incorrect field type)"

\* Mutant: a minerId in the dynamic document replaces the one of the static
\* document.
DynamicAccepted_Replace(self, document) ==
    [self EXCEPT !.coinbaseDocument_.minerId =
                     IF isStr(Field(document, "minerId")) THEN document.minerId.v ELSE @]

\* Mutant: the data refs of the dynamic document replace those set before.
DynamicAccepted_Override(self, document) ==
    IF Len(parseDataRefs(document).refs) # 0
    THEN [self EXCEPT !.coinbaseDocument_ = SetDataRefs(@, parseDataRefs(document).refs)]
    ELSE self

\* Mutant: the data refs of the dynamic document are added to those set
\* before.
DynamicAccepted_Append(self, document) ==
    IF Len(parseDataRefs(document).refs) = 0 THEN self
    ELSE [self EXCEPT !.coinbaseDocument_ =
              SetDataRefs(@, (IF @.dataRefs.some THEN @.dataRefs.refs ELSE <<>>)
                             \o parseDataRefs(document).refs)]

\* The MinerId after a successful call: data refs are set only if they do
\* not exist already.
DynamicAccepted(self, document) ==
    IF ~HasDataRefs(self) /\ Len(parseDataRefs(document).refs) # 0
    THEN [self EXCEPT !.coinbaseDocument_ = SetDataRefs(@, parseDataRefs(document).refs)]
    ELSE self

\* The checks a call made: parseDataRefs is not called when the current
\* document has data refs.
DynamicStagesRun(self, failure) ==
    IF failure = "none" /\ HasDataRefs(self)
    THEN SubSeq(DynamicStages, 1, StageIndex(DynamicStages, "verify_dynamic"))
    ELSE StagesRun(DynamicStages, failure)

DynamicVerifyCalls(self, document, signatureBytes, stages) ==
    IF StageIndex(stages, "verify_dynamic") = 0 THEN <<>>
    ELSE <<VerifyCall("verify_dynamic", DynamicDataToSign(self, document),
                      ParseHex(document.dynamicMinerId), signatureBytes)>>

\* Mutant: a failed call clears the object.
SetDynamicCoinbaseDocument_ClearOnFailure(self, document, signatureBytes, blockHeight) ==
    LET failure == DynamicFailure(self, document, signatureBytes, blockHeight)
        stages == DynamicStagesRun(self, failure)
    IN  [ret |-> IF failure = "none" THEN "true" ELSE "false",
         self |-> IF failure = "none" THEN DynamicAccepted(self, document) ELSE EmptyMinerId,
         log |-> IF failure = "none" THEN <<>> ELSE <<DynamicLogMessage(failure)>>,
         stages |-> stages,
         calls |-> DynamicVerifyCalls(self, document, signatureBytes, stages)]

SetDynamicCoinbaseDocument(self, document, signatureBytes, blockHeight) ==
    LET failure == DynamicFailure(self, document, signatureBytes, blockHeight)
        stages == DynamicStagesRun(self, failure)
    IN  [ret |-> IF failure = "none" THEN "true" ELSE "false",
         self |-> IF failure = "none" THEN DynamicAccepted(self, document) ELSE self,
         log |-> IF failure = "none" THEN <<>> ELSE <<DynamicLogMessage(failure)>>,
         stages |-> stages,
         calls |-> DynamicVerifyCalls(self, document, signatureBytes, stages)]

(***************************************************************************)
(* parseCoinbaseDocument.                                                  *)
(***************************************************************************)
parseCoinbaseDocument(minerId, coinbaseDocumentDataJson, signatureBytes, blockHeight, dynamic) ==
    IF ~ReadOk(coinbaseDocumentDataJson)
    THEN [ret |-> "false", self |-> minerId,
          log |-> <<"Cannot parse coinbase document">>,
          stages |-> <<"read">>, calls |-> <<>>]
    ELSE LET r == IF dynamic
                  THEN SetDynamicCoinbaseDocument(minerId, Read(coinbaseDocumentDataJson),
                                                  signatureBytes, blockHeight)
                  ELSE SetStaticCoinbaseDocument(minerId, Read(coinbaseDocumentDataJson),
                                                 signatureBytes, blockHeight)
         IN  [r EXCEPT !.stages = <<"read">> \o @]

(***************************************************************************)
(* Locking scripts.  An output is [marker, ops]: whether the script begins *)
(* with the 7-byte miner-id prefix, and the script elements after it.  An  *)
(* element is a push of a byte buffer (possibly empty) or a truncated      *)
(* push, which cannot be extracted.                                        *)
(***************************************************************************)
IsMinerId(scriptPubKey) == scriptPubKey.marker

\* pc >= scriptPubKey.end()
AtEnd(scriptPubKey, pc) == pc > Len(scriptPubKey.ops)

\* CScript::GetOp at cursor pc: ok, the extracted data, the advanced cursor.
GetOp(scriptPubKey, pc) ==
    IF AtEnd(scriptPubKey, pc) \/ scriptPubKey.ops[pc].k # "push"
    THEN [ok |-> FALSE, data |-> EmptyBuffer, pc |-> pc]
    ELSE [ok |-> TRUE, data |-> scriptPubKey.ops[pc].data, pc |-> pc + 1]

\* std::vector::empty() of an extracted buffer.
empty(buf) == buf.t = "empty"

(***************************************************************************)
(* Inputs.  The documents and signatures below are built the way a miner   *)
(* following the protocol builds them (signatures are made over the exact  *)
(* bytes placed in the script), independently of the operators above.      *)
(***************************************************************************)
MaxOutputs == 3

BlockHeights == {7, 12}

RECURSIVE DecStr(_)
DecStr(n) ==
    IF n < 10 THEN <<HexDigits[n + 1]>>
    ELSE DecStr(n \div 10) \o <<HexDigits[(n % 10) + 1]>>

V01 == <<"0", ".", "1">>

V02 == <<"0", ".", "2">>

V03 == <<"0", ".", "3">>

\* prevMinerId "a1", minerId "b2", dynamicMinerId "c3", vctx.txId "d4",
\* and the key bytes the three hex strings stand for.
FxPrev == <<"a", "1">>

FxMiner == <<"b", "2">>

FxDyn == <<"c", "3">>

FxTxId == <<"d", "4">>

FxPrevKey == <<161>>

FxMinerKey == <<178>>

FxDynKey == <<195>>

\* The linkage message a signer of the given protocol version signs:
\* "a1b2d4", or under "0.2" its hexadecimal text.
FxLinkMsg(version) ==
    [t |-> "chars",
     c |-> IF version = V01
           THEN <<"a", "1", "b", "2", "d", "4">>
           ELSE <<"6", "1", "3", "1", "6", "2", "3", "2", "6", "4", "3", "4">>]

Junk == [t |-> "junk"]

Text(doc, fmt) == [t |-> "json", doc |-> doc, fmt |-> fmt]

\* A static document declaring `version`, at height string `height`, whose
\* linkage signature was made as version `signedAs` prescribes.
FxStatic(version, signedAs, height) ==
    [t |-> "obj",
     version |-> JStr(version),
     height |-> height,
     prevMinerId |-> JStr(FxPrev),
     prevMinerIdSig |-> JHexOf(Sign(FxPrevKey, FxLinkMsg(signedAs))),
     minerId |-> JStr(FxMiner),
     vctx |-> [t |-> "obj", txId |-> JStr(FxTxId), vout |-> JNum(0)]]

\* A version "0.1" or "0.2" document with other identity strings, signed
\* by the keys those strings stand for.
FxStaticWith(version, prev, miner, txid, height) ==
    [t |-> "obj",
     version |-> JStr(version),
     height |-> height,
     prevMinerId |-> JStr(prev),
     prevMinerIdSig |->
         JHexOf(Sign(ParseHexChars(prev),
                     [t |-> "chars",
                      c |-> IF version = V01 THEN prev \o miner \o txid
                            ELSE HexStr(prev \o miner \o txid)])),
     minerId |-> JStr(miner),
     vctx |-> [t |-> "obj", txId |-> JStr(txid), vout |-> JNum(0)]]

FxRef(c, n) ==
    [t |-> "obj", brfcIds |-> JArr(<<JStr(<<c>>)>>), txid |-> JStr(<<c, c>>), vout |-> JNum(n)]

\* The DataRef a well-formed reference parses to.
FxParsedRef(c, n) == [brfcIds |-> <<(<<c>>)>>, txid |-> <<c, c>>, n |-> n]

FxRefs(list) == [t |-> "obj", refs |-> JArr(list)]

FxRefsA == FxRefs(<<FxRef("a", 0)>>)

FxRefsB == FxRefs(<<FxRef("b", 1)>>)

FxRefsEmpty == FxRefs(<<>>)

\* The second element lacks txid.
FxRefsBad == FxRefs(<<FxRef("a", 0), [t |-> "obj", brfcIds |-> JArr(<<>>), vout |-> JNum(0)]>>)

With(doc, name, value) == [f \in DOMAIN doc \cup {name} |-> IF f = name THEN value ELSE doc[f]]

Without(doc, name) == [f \in DOMAIN doc \ {name} |-> doc[f]]

FxDynamic == [t |-> "obj", dynamicMinerId |-> JStr(FxDyn)]

Push(buf) == [k |-> "push", data |-> buf]

Truncated == [k |-> "bad"]

\* The static pair of a script: the document text in format fmt, signed by
\* minerId over that exact text.
FxStaticOps(doc, fmt) ==
    <<Push(Text(doc, fmt)), Push(Sign(FxMinerKey, Text(doc, fmt)))>>

\* The dynamic pair following a static pair: the dynamic text, signed by
\* dynamicMinerId over static text, static signature and dynamic text.
FxDynamicOps(staticOps, doc, fmt) ==
    <<Push(Text(doc, fmt)),
      Push(Sign(FxDynKey,
                [t |-> "cat",
                 parts |-> <<staticOps[1].data, staticOps[2].data, Text(doc, fmt)>>]))>>

Out(marker, ops) == [marker |-> marker, ops |-> ops]

FxStaticWithOut(doc) ==
    Out(TRUE, <<Push(Text(doc, "compact")),
                Push(Sign(ParseHexChars(doc.minerId.v), Text(doc, "compact")))>>)

\* The outputs the transactions are made of, at block height h.
FxS(h) == FxStatic(V01, V01, JStr(DecStr(h)))

FxSA(h) == With(FxS(h), "dataRefs", FxRefsA)

FxSE(h) == With(FxS(h), "dataRefs", FxRefsEmpty)

FxSO(h) == FxStaticOps(FxS(h), "compact")

FxStaticOnly(doc) == Out(TRUE, FxStaticOps(doc, "compact"))

FxFull(sdoc, ddoc) ==
    Out(TRUE, FxStaticOps(sdoc, "compact")
              \o FxDynamicOps(FxStaticOps(sdoc, "compact"), ddoc, "compact"))

ExtractionOutputs(h) ==
    << Out(FALSE, FxSO(h)),
       Out(TRUE, <<>>),
       Out(TRUE, <<Push(EmptyBuffer), Push(Junk)>>),
       Out(TRUE, <<Push(Text(FxS(h), "compact")), Truncated>>),
       Out(TRUE, <<Push(Text(FxS(h), "compact")), Push(EmptyBuffer)>>),
       Out(TRUE, <<Push(Junk), Push(Junk)>>) >>

StaticOutputs(h) ==
    << FxStaticOnly(FxS(h)),
       FxStaticOnly(FxStatic(V02, V02, JStr(DecStr(h)))),
       FxStaticOnly(FxStatic(V01, V02, JStr(DecStr(h)))),
       FxStaticOnly(FxStatic(V02, V01, JStr(DecStr(h)))),
       FxStaticOnly(FxStatic(V03, V01, JStr(DecStr(h)))),
       FxStaticOnly(FxStatic(V01, V01, JStr(DecStr(h + 1)))),
       FxStaticOnly(FxStatic(V01, V01, JStr(<<"x">>))),
       FxStaticOnly(FxStatic(V01, V01, JNum(h))),
       FxStaticOnly(FxStatic(V01, V01, JStr(DecStr(h) \o <<"x">>))),
       FxStaticOnly(Without(FxS(h), "minerId")),
       FxStaticOnly(With(FxS(h), "vctx", [t |-> "obj", txId |-> JStr(FxTxId)])),
       FxStaticOnly(Without(FxS(h), "version")),
       FxStaticOnly(With(FxS(h), "prevMinerId", JNum(1))),
       FxStaticOnly(Without(FxS(h), "prevMinerIdSig")),
       FxStaticOnly(With(FxS(h), "vctx", JStr(FxTxId))),
       FxStaticOnly(With(FxS(h), "vctx", [t |-> "obj", vout |-> JNum(0)])),
       FxStaticOnly(Without(FxStatic(V01, V01, JStr(<<"x">>)), "minerId")),
       Out(TRUE, <<Push(Text(FxS(h), "compact")), Push(Junk)>>),
       Out(TRUE, <<Push(Text(FxS(h), "compact")),
                   Push(Sign(FxPrevKey, Text(FxS(h), "compact")))>>),
       Out(TRUE, FxStaticOps(FxS(h), "spaced")),
       Out(TRUE, <<Push(Text(FxS(h), "spaced")),
                   Push(Sign(FxMinerKey, Text(FxS(h), "compact")))>>),
       FxStaticOnly(FxSA(h)),
       FxStaticOnly(With(FxS(h), "dataRefs", FxRefsBad)),
       FxStaticOnly(With(FxS(h), "dataRefs", JStr(FxTxId))),
       FxStaticOnly(With(FxS(h), "dataRefs", [t |-> "obj", refs |-> JNum(0)])),
       FxStaticOnly(With(FxS(h), "dataRefs",
                         FxRefs(<<With(FxRef("a", 0), "brfcIds", JArr(<<JStr(<<"a">>), JNum(0)>>)),
                                  FxRef("b", 1)>>))),
       FxStaticOnly(With(FxS(h), "dataRefs",
                         FxRefs(<<FxRef("a", 0), With(FxRef("b", 1), "vout", JStr(<<"1">>))>>))),
       FxStaticOnly(FxSE(h)),
       FxStaticWithOut(FxStaticWith(V01, <<>>, FxMiner, <<>>, JStr(DecStr(h)))),
       FxStaticWithOut(FxStaticWith(V01, <<>>, <<>>, <<>>, JStr(DecStr(h)))),
       FxStaticWithOut(FxStaticWith(V02, FxPrev, FxMiner, <<>>, JStr(DecStr(h)))) >>

DynamicOutputs(h) ==
    << FxFull(FxS(h), FxDynamic),
       FxFull(FxS(h), With(FxDynamic, "dataRefs", FxRefsB)),
       FxFull(FxSA(h), With(FxDynamic, "dataRefs", FxRefsB)),
       FxFull(FxSE(h), With(FxDynamic, "dataRefs", FxRefsB)),
       FxFull(FxSE(h), With(FxDynamic, "dataRefs", FxRefsBad)),
       FxFull(FxS(h), With(FxDynamic, "dataRefs", FxRefsBad)),
       FxFull(FxSA(h), With(FxDynamic, "dataRefs", FxRefsBad)),
       FxFull(FxS(h), With(FxDynamic, "height", JNum(h))),
       FxFull(FxS(h), With(FxDynamic, "height", JNum(h + 1))),
       FxFull(FxS(h), With(FxDynamic, "height", JStr(DecStr(h)))),
       FxFull(FxS(h), Without(FxDynamic, "dynamicMinerId")),
       FxFull(FxS(h), With(With(FxDynamic, "minerId", JStr(FxDyn)), "version", JStr(V02))),
       FxFull(FxS(h), With(FxDynamic, "version", JStr(V03))),
       FxFull(FxS(h), With(FxDynamic, "dynamicMinerId", JNum(1))),
       FxFull(FxS(h), With(FxDynamic, "prevMinerId", JNum(1))),
       FxFull(FxS(h), With(FxDynamic, "vctx", JStr(FxTxId))),
       FxFull(FxS(h), With(FxDynamic, "vctx", [t |-> "obj", txId |-> JStr(FxTxId)])),
       FxFull(FxS(h), With(With(FxDynamic, "prevMinerIdSig", JStr(FxPrev)),
                           "vctx", [t |-> "obj", txId |-> JStr(FxDyn), vout |-> JNum(1)])),
       Out(TRUE, FxSO(h) \o <<Push(Text(FxDynamic, "compact")), Push(Junk)>>),
       Out(TRUE, FxSO(h) \o <<Truncated>>),
       Out(TRUE, FxSO(h) \o <<Push(Text(FxDynamic, "compact"))>>),
       Out(TRUE, FxSO(h) \o <<Push(EmptyBuffer), Push(Junk)>>),
       Out(TRUE, FxSO(h) \o <<Push(Text(FxDynamic, "compact")), Push(EmptyBuffer)>>),
       Out(TRUE, FxSO(h) \o <<Push(Junk), Push(Junk)>>),
       Out(TRUE, FxSO(h) \o FxDynamicOps(FxSO(h), FxDynamic, "spaced")) >>

Catalog(h) == ExtractionOutputs(h) \o StaticOutputs(h) \o DynamicOutputs(h)

\* The outputs that may follow the first one: without the marker, accepted
\* static-only, accepted with a dynamic document, static accepted and
\* dynamic document of another height, static accepted and dynamic document
\* not extractable, and a height that is no number.
LaterOutputs(h) ==
    << Out(FALSE, FxSO(h)),
       FxStaticOnly(FxS(h)),
       FxFull(FxS(h), With(FxDynamic, "dataRefs", FxRefsB)),
       FxFull(FxS(h), With(FxDynamic, "height", JNum(h + 1))),
       Out(TRUE, FxStaticOps(FxSA(h), "compact") \o <<Truncated>>),
       FxStaticOnly(FxStatic(V01, V01, JStr(<<"x">>))) >>

\* The catalogues of every block height, computed once.
Catalogs == [h \in BlockHeights |-> Catalog(h)]

Laters == [h \in BlockHeights |-> LaterOutputs(h)]

\* A transaction of 1 + Len(later) outputs at height h: output number
\* `first` of the catalogue, then the outputs of LaterOutputs numbered by
\* `later`.
Transaction(h, first, later) ==
    <<Catalogs[h][first]>> \o [k \in 1..Len(later) |-> Laters[h][later[k]]]

(***************************************************************************)
(* FindMinerId as a state machine.                                         *)
(***************************************************************************)
VARIABLES
    tx,          \* tx.vout: the outputs of the transaction (tx[k] is vout[k-1])
    blockHeight, \* the block height passed in
    i,           \* the loop index
    at,          \* the place in FindMinerId control has reached
    pc,          \* the script cursor of the current output
    msgBytes,    \* the last document buffer extracted
    signature,   \* the last signature buffer extracted
    minerId,     \* the local MinerId object
    result,      \* what FindMinerId returned
    log,         \* the diagnostics written, each with its output number and phase
    trace,       \* the steps taken, each with its output number
    calls        \* the calls of verify made, each with its output number

vars == <<tx, blockHeight, i, at, pc, msgBytes, signature, minerId, result, log, trace, calls>>

Pending == [state |-> "pending"]

Vout(n) == tx[n + 1]

Tag(n, ph, evs) == [k \in 1..Len(evs) |-> [n |-> n, ph |-> ph, ev |-> evs[k]]]

TagLog(n, ph, msgs) == [k \in 1..Len(msgs) |-> [n |-> n, ph |-> ph, msg |-> msgs[k]]]

TagCalls(n, cs) ==
    [k \in 1..Len(cs) |->
        [n |-> n, step |-> cs[k].step, msg |-> cs[k].msg, key |-> cs[k].key,
         sig |-> cs[k].sig, ok |-> cs[k].ok]]

Init ==
    \E h \in BlockHeights :
        /\ \/ tx = <<>>
           \/ \E first \in 1..Len(Catalogs[h]), n \in 0..(MaxOutputs - 1) :
                 \E later \in [1..n -> 1..Len(Laters[h])] :
                    tx = Transaction(h, first, later)
        /\ blockHeight = h
        /\ i = 0
        /\ at = "for"
        /\ pc = 1
        /\ msgBytes = EmptyBuffer
        /\ signature = EmptyBuffer
        /\ minerId = EmptyMinerId
        /\ result = Pending
        /\ log = <<>>
        /\ trace = <<>>
        /\ calls = <<>>

\* Mutant: the static-only return is never taken.
StaticOnlyReturn_Never(scriptPubKey, cursor) == FALSE

\* Mutant: the static-only return is taken whatever follows in the script.
StaticOnlyReturn_Early(scriptPubKey, cursor) == TRUE

\* if(pc >= tx.vout[i].scriptPubKey.end()) return minerId;
StaticOnlyReturn(scriptPubKey, cursor) == AtEnd(scriptPubKey, cursor)

\* Mutant: the MinerId is returned whatever the dynamic document gave.
DynamicReturn_Always(ret) == TRUE

\* if(parseCoinbaseDocument(..., true)) return minerId;
DynamicReturn(ret) == ret = "true"

\* for(size_t i = 0; i < tx.vout.size(); i++) with the marker test: an
\* output without the marker is skipped.
LoopTest ==
    /\ at = "for"
    /\ i < Len(tx)
    /\ trace' = trace \o Tag(i, "scan", <<"IsMinerId">>)
    /\ IF IsMinerId(Vout(i))
       THEN at' = "static_doc" /\ i' = i
       ELSE at' = "for" /\ i' = i + 1
    /\ pc' = 1
    /\ msgBytes' = EmptyBuffer
    /\ signature' = EmptyBuffer
    /\ UNCHANGED <<tx, blockHeight, minerId, result, log, calls>>

\* The loop ends without a return: return {}.
LoopExit ==
    /\ at = "for"
    /\ i >= Len(tx)
    /\ at' = "done"
    /\ result' = [state |-> "none"]
    /\ UNCHANGED <<tx, blockHeight, i, pc, msgBytes, signature, minerId, log, trace, calls>>

\* Extraction of the static document: GetOp, then the test for an empty
\* buffer.
ExtractStaticDocument ==
    LET r == GetOp(Vout(i), pc)
    IN  /\ at = "static_doc"
        /\ trace' = trace \o Tag(i, "static", <<"GetOp">>)
        /\ msgBytes' = r.data
        /\ pc' = r.pc
        /\ IF ~r.ok
           THEN /\ log' = log \o TagLog(i, "static", <<"Failed to extract data for static document of minerId">>)
                /\ at' = "for" /\ i' = i + 1
           ELSE IF empty(r.data)
           THEN /\ log' = log \o TagLog(i, "static", <<"Invalid data for MinerId protocol">>)
                /\ at' = "for" /\ i' = i + 1
           ELSE /\ log' = log
                /\ at' = "static_sig" /\ i' = i
        /\ UNCHANGED <<tx, blockHeight, signature, minerId, result, calls>>

\* Extraction of the static signature.
ExtractStaticSignature ==
    LET r == GetOp(Vout(i), pc)
    IN  /\ at = "static_sig"
        /\ trace' = trace \o Tag(i, "static", <<"GetOp">>)
        /\ signature' = r.data
        /\ pc' = r.pc
        /\ IF ~r.ok
           THEN /\ log' = log \o TagLog(i, "static", <<"Failed to extract signature of static document of minerId">>)
                /\ at' = "for" /\ i' = i + 1
           ELSE IF empty(r.data)
           THEN /\ log' = log \o TagLog(i, "static", <<"Invalid data for MinerId signature">>)
                /\ at' = "for" /\ i' = i + 1
           ELSE /\ log' = log
                /\ at' = "static_parse" /\ i' = i
        /\ UNCHANGED <<tx, blockHeight, msgBytes, minerId, result, calls>>

\* parseCoinbaseDocument(..., false) and what follows a success: the return
\* of a static-only MinerId when the cursor is at the end of the script.
ParseStatic ==
    LET r == parseCoinbaseDocument(minerId, msgBytes, signature, blockHeight, FALSE)
    IN  /\ at = "static_parse"
        /\ trace' = trace \o Tag(i, "static", r.stages)
        /\ calls' = calls \o TagCalls(i, r.calls)
        /\ log' = log \o TagLog(i, "static", r.log)
        /\ minerId' = r.self
        /\ IF r.ret = "throw"
           THEN at' = "done" /\ i' = i /\ result' = [state |-> "exception"]
           ELSE IF r.ret = "false"
           THEN at' = "for" /\ i' = i + 1 /\ result' = result
           ELSE IF StaticOnlyReturn(Vout(i), pc)
           THEN at' = "done" /\ i' = i
                /\ result' = [state |-> "found", minerId |-> r.self]
           ELSE at' = "dyn_doc" /\ i' = i /\ result' = result
        /\ UNCHANGED <<tx, blockHeight, pc, msgBytes, signature>>

\* Extraction of the dynamic document.
ExtractDynamicDocument ==
    LET r == GetOp(Vout(i), pc)
    IN  /\ at = "dyn_doc"
        /\ trace' = trace \o Tag(i, "dynamic", <<"GetOp">>)
        /\ msgBytes' = IF r.ok THEN r.data ELSE msgBytes
        /\ pc' = r.pc
        /\ IF ~r.ok
           THEN /\ log' = log \o TagLog(i, "dynamic", <<"Failed to extract data for dynamic document of minerId">>)
                /\ at' = "for" /\ i' = i + 1
           ELSE /\ log' = log
                /\ at' = "dyn_sig" /\ i' = i
        /\ UNCHANGED <<tx, blockHeight, signature, minerId, result, calls>>

\* Extraction of the dynamic signature.
ExtractDynamicSignature ==
    LET r == GetOp(Vout(i), pc)
    IN  /\ at = "dyn_sig"
        /\ trace' = trace \o Tag(i, "dynamic", <<"GetOp">>)
        /\ signature' = IF r.ok THEN r.data ELSE signature
        /\ pc' = r.pc
        /\ IF ~r.ok
           THEN /\ log' = log \o TagLog(i, "dynamic", <<"Failed to extract signature of dynamic document of minerId">>)
                /\ at' = "for" /\ i' = i + 1
           ELSE /\ log' = log
                /\ at' = "dyn_parse" /\ i' = i
        /\ UNCHANGED <<tx, blockHeight, msgBytes, minerId, result, calls>>

\* parseCoinbaseDocument(..., true): return the MinerId, or reset it and go
\* on with the next output.
ParseDynamic ==
    LET r == parseCoinbaseDocument(minerId, msgBytes, signature, blockHeight, TRUE)
    IN  /\ at = "dyn_parse"
        /\ trace' = trace \o Tag(i, "dynamic", r.stages)
        /\ calls' = calls \o TagCalls(i, r.calls)
        /\ log' = log \o TagLog(i, "dynamic", r.log)
        /\ IF DynamicReturn(r.ret)
           THEN /\ minerId' = r.self
                /\ at' = "done" /\ i' = i
                /\ result' = [state |-> "found", minerId |-> r.self]
           ELSE /\ minerId' = EmptyMinerId
                /\ at' = "for" /\ i' = i + 1
                /\ result' = result
        /\ UNCHANGED <<tx, blockHeight, pc, msgBytes, signature>>

Next ==
    \/ LoopTest
    \/ LoopExit
    \/ ExtractStaticDocument
    \/ ExtractStaticSignature
    \/ ParseStatic
    \/ ExtractDynamicDocument
    \/ ExtractDynamicSignature
    \/ ParseDynamic

Spec == Init /\ [][Next]_vars

(***************************************************************************)
(* Properties.                                                             *)
(***************************************************************************)
Returned == at = "done" /\ result.state = "found"

\* The buffers of output n as the script holds them.
StaticText(n) == Vout(n).ops[1].data

StaticSig(n) == Vout(n).ops[2].data

DynamicText(n) == Vout(n).ops[3].data

DynamicSig(n) == Vout(n).ops[4].data

HasDynamicSegment(n) == Len(Vout(n).ops) > 2

\* A step of the trace was taken for output n.
Stepped(n, ph, ev) == \E k \in 1..Len(trace) : trace[k] = [n |-> n, ph |-> ph, ev |-> ev]

\* A recorded call of verify whose signature is one by the key over the
\* message of the call.
Genuine(c) ==
    /\ c.key # <<>>
    /\ c.sig.t = "sig"
    /\ c.sig.key = c.key
    /\ c.sig.msg = c.msg

CallsOf(n, step) == {k \in 1..Len(calls) : calls[k].n = n /\ calls[k].step = step}

\* Outputs built as the protocol prescribes, from compact text.
FxValidCandidates(h) ==
    << FxStaticOnly(FxS(h)),
       FxStaticOnly(FxStatic(V02, V02, JStr(DecStr(h)))),
       FxStaticOnly(FxSA(h)),
       FxFull(FxS(h), FxDynamic),
       FxFull(FxS(h), With(FxDynamic, "dataRefs", FxRefsB)),
       FxFull(FxSA(h), With(FxDynamic, "dataRefs", FxRefsB)) >>

ValidCandidate(out) ==
    \E k \in 1..Len(FxValidCandidates(blockHeight)) : FxValidCandidates(blockHeight)[k] = out

\* C1: once the dynamic segment of an output has failed (a diagnostic of
\* the dynamic phase names the output), the scan is past that output: it
\* has not returned a MinerId for it and goes on with the next one.
C1_NoStaticOnlyDegradation ==
    \A k \in 1..Len(log) : log[k].ph = "dynamic" => i > log[k].n

\* A dynamic segment failed and a later output was returned.
C1_Witness == Returned /\ \E k \in 1..Len(log) : log[k].ph = "dynamic"

\* C2: the output a MinerId is returned for had its self-signature, its
\* linkage signature and, with a dynamic segment, its dynamic signature
\* verified, each with the key the claim names; and a call of verify that
\* fails leaves the scan past its output, still running.
C2_ReturnedIsVerified ==
    /\ Returned =>
          LET d == result.minerId.coinbaseDocument_
          IN  /\ \E k \in CallsOf(i, "verify_self") :
                    /\ Genuine(calls[k])
                    /\ calls[k].key = ParseHexChars(d.minerId)
                    /\ calls[k].sig = StaticSig(i)
              /\ \E k \in CallsOf(i, "verify_link") :
                    /\ Genuine(calls[k])
                    /\ calls[k].key = ParseHexChars(d.prevMinerId)
                    /\ calls[k].sig = ParseHex(d.prevMinerIdSig)
              /\ HasDynamicSegment(i) =>
                    \E k \in CallsOf(i, "verify_dynamic") :
                        /\ Genuine(calls[k])
                        /\ calls[k].key = ParseHex(DynamicText(i).doc.dynamicMinerId)
                        /\ calls[k].sig = DynamicSig(i)
    /\ \A k \in 1..Len(calls) :
          ~Genuine(calls[k]) =>
              /\ i > calls[k].n
              /\ \E j \in 1..Len(log) : log[j].n = calls[k].n

\* An output with a dynamic segment is returned after a verification of an
\* earlier output failed.
C2_Witness ==
    /\ Returned
    /\ HasDynamicSegment(i)
    /\ \E k \in 1..Len(calls) : ~Genuine(calls[k])

\* C3: the marker test runs on the outputs 0, 1, 2, ... in this order, no
\* step is taken for an output after the one returned, and the output
\* returned is not preceded by a valid candidate.
C3_FirstAcceptedWins ==
    /\ LET tests == SelectSeq(trace, LAMBDA e : e.ev = "IsMinerId")
       IN  \A k \in 1..Len(tests) : tests[k].n = k - 1
    /\ \A k \in 1..Len(trace) :
          /\ trace[k].n <= i
          /\ k > 1 => trace[k - 1].n <= trace[k].n
    /\ Returned =>
          /\ \A m \in 0..(Len(tx) - 1) : ValidCandidate(Vout(m)) => i <= m
          /\ result.minerId.staticDocumentJson_.doc = StaticText(i).doc

\* Two valid candidates, the first of them returned.
C3_Witness ==
    /\ Returned
    /\ ValidCandidate(Vout(i))
    /\ \E m \in (i + 1)..(Len(tx) - 1) : ValidCandidate(Vout(m))

\* C4 as stated: FindMinerId ends with "found" or "not found".
C4_ScanNeverFails == at = "done" => result.state \in {"found", "none"}

\* The element of output n at position k is an extracted buffer of JSON text.
HasText(n, k) ==
    /\ Len(Vout(n).ops) >= k
    /\ Vout(n).ops[k].k = "push"
    /\ Vout(n).ops[k].data.t = "json"

\* The outputs of the transaction.
Outputs == 0..(Len(tx) - 1)

\* A static-only output as a miner following the protocol builds it: a
\* well-formed document at the block height, its linkage signature made as
\* its version prescribes, in compact or spaced text, signed by minerId
\* over that text; nothing follows the pair.
WellFormedStaticOnly(out) ==
    \E version \in {V01, V02}, fmt \in {"compact", "spaced"} :
        out = Out(TRUE, FxStaticOps(FxStatic(version, version, JStr(DecStr(blockHeight))), fmt))

\* C5 as stated: a well-formed static-only output with valid signatures at
\* the block height, once its document is handed to the parser, is returned
\* at once as a static-only MinerId, and no dynamic extraction is attempted
\* for it.
C5_StaticOnlyAccepted ==
    \A n \in Outputs :
        WellFormedStaticOnly(Vout(n)) /\ Stepped(n, "static", "read") =>
            /\ Returned
            /\ i = n
            /\ \A k \in 1..Len(trace) : trace[k].n = n => trace[k].ph # "dynamic"

\* C6 as stated: the message of every static self-signature verification is
\* the document text of the script, byte for byte.
C6_SelfMessageIsExactText ==
    \A k \in 1..Len(calls) :
        calls[k].step = "verify_self" => calls[k].msg = StaticText(calls[k].n)

\* The static document of output n has a string height that is not the
\* block height (StoI: the conversion the code applies).
StaticHeightMismatch(n) ==
    /\ HasText(n, 1)
    /\ isStr(Field(StaticText(n).doc, "height"))
    /\ LET h == StoI(StaticText(n).doc.height.v)
       IN  ~h.ok \/ h.v # blockHeight

\* The dynamic document of output n has a numeric height that is not the
\* block height.
DynamicHeightMismatch(n) ==
    /\ HasText(n, 3)
    /\ isNum(Field(DynamicText(n).doc, "height"))
    /\ DynamicText(n).doc.height.n # blockHeight

DataRefsOf(n, k) == IF HasText(n, k) THEN Field(Vout(n).ops[k].data.doc, "dataRefs") ELSE Null

\* C8: the MinerId returned for an output whose static document has the
\* data refs A and whose dynamic document has the data refs B exposes A;
\* with no data refs in the static document it exposes B; with data refs in
\* neither document it has none.
C8_DataRefsMerge ==
    Returned =>
        LET dataRefs == result.minerId.coinbaseDocument_.dataRefs
        IN  /\ DataRefsOf(i, 1) = FxRefsA /\ DataRefsOf(i, 3) = FxRefsB =>
                  dataRefs = [some |-> TRUE, refs |-> <<FxParsedRef("a", 0)>>]
            /\ DataRefsOf(i, 1) = Null /\ DataRefsOf(i, 3) = FxRefsB =>
                  dataRefs = [some |-> TRUE, refs |-> <<FxParsedRef("b", 1)>>]
            /\ DataRefsOf(i, 1) = Null /\ DataRefsOf(i, 3) = Null =>
                  dataRefs = [some |-> FALSE, refs |-> <<>>]

\* A MinerId is returned for an output with the data refs A in its static
\* document and B in its dynamic document.
C8_Witness == Returned /\ DataRefsOf(i, 1) = FxRefsA /\ DataRefsOf(i, 3) = FxRefsB

\* The static documents among the outputs whose three identity fields are
\* strings of characters.
HasLinkageFields(n) ==
    /\ HasText(n, 1)
    /\ LET d == StaticText(n).doc
       IN  /\ isStr(Field(d, "prevMinerId")) /\ isStr(Field(d, "minerId"))
           /\ isObject(Field(d, "vctx")) /\ isStr(Field(d.vctx, "txId"))

LinkageFields(n) ==
    LET d == StaticText(n).doc
    IN  <<d.prevMinerId.v, d.minerId.v, d.vctx.txId.v>>

\* The messages the two versions give for the same fields differ.
LinkageMessagesDiffer(f) ==
    LinkageDataToSign(V01, f[1], f[2], f[3]) # LinkageDataToSign(V02, f[1], f[2], f[3])

\* The version other than the one given.
OtherVersion(version) == IF version = V01 THEN V02 ELSE V01

\* A linkage signature made over the message of the other version is
\* refused, and its output is not returned.
CrossVersionRefused ==
    \A k \in 1..Len(calls) :
        calls[k].step = "verify_link" =>
            LET n == calls[k].n
                f == LinkageFields(n)
                other == OtherVersion(StaticText(n).doc.version.v)
            IN  /\ calls[k].msg # LinkageDataToSign(other, f[1], f[2], f[3])
                /\ (calls[k].sig.t = "sig"
                    /\ calls[k].sig.msg = [t |-> "chars",
                                           c |-> IF other = V01
                                                 THEN f[1] \o f[2] \o f[3]
                                                 ELSE HexStr(f[1] \o f[2] \o f[3])]) =>
                       ~calls[k].ok /\ i > n

\* C9 as stated: for every choice of the three string fields the messages of
\* the two versions differ, and a signature over the message of one version
\* is refused for a document declaring the other.
C9_MessagesDifferForEveryChoice ==
    /\ \A n \in Outputs :
          HasLinkageFields(n) /\ Stepped(n, "static", "read") =>
              LinkageMessagesDiffer(LinkageFields(n))
    /\ CrossVersionRefused

\* C9, amended: the messages of the two versions differ for every choice of
\* the three string fields of which one at least is not empty, which is the
\* case of every document whose linkage signature is verified; and a
\* signature over the message of one version is refused for a document
\* declaring the other.
C9_MessagesDifferUnlessEmpty ==
    /\ \A n \in Outputs :
          /\ HasLinkageFields(n)
          /\ Stepped(n, "static", "read")
          /\ LinkageFields(n) # <<(<<>>), <<>>, <<>>>>
          => LinkageMessagesDiffer(LinkageFields(n))
    /\ \A k \in 1..Len(calls) :
          calls[k].step = "verify_link" =>
              LinkageFields(calls[k].n) # <<(<<>>), <<>>, <<>>>>
    /\ CrossVersionRefused

\* A document declaring "0.1" whose linkage signature was made over the
\* "0.2" message, and one the other way round, have had their linkage
\* signatures verified.
C9_Witness ==
    \E k \in 1..Len(calls) :
        /\ calls[k].step = "verify_link"
        /\ calls[k].sig.t = "sig"
        /\ calls[k].sig.msg = FxLinkMsg(OtherVersion(StaticText(calls[k].n).doc.version.v))
        /\ ~calls[k].ok

\* C10 as stated: the message of every dynamic signature verification is the
\* static document text, the static signature bytes and the dynamic
\* document text of the script, in this order, and the key is
\* dynamicMinerId; an output with a dynamic segment is returned only after
\* this verification succeeded.
C10_DynamicMessageIsTexts ==
    /\ \A k \in 1..Len(calls) :
          calls[k].step = "verify_dynamic" =>
              LET n == calls[k].n
              IN  /\ calls[k].msg = [t |-> "cat",
                                     parts |-> <<StaticText(n), StaticSig(n), DynamicText(n)>>]
                  /\ calls[k].key = ParseHex(DynamicText(n).doc.dynamicMinerId)
    /\ Returned /\ HasDynamicSegment(i) =>
          \E k \in CallsOf(i, "verify_dynamic") : calls[k].ok

\* C11 as stated: at the start of the evaluation of every output that has
\* the marker, the MinerId object is in its initial state.
C11_MinerIdEmptyAtStart == at = "static_doc" => minerId = EmptyMinerId

\* The fields a static document must have, with their types.
StaticFieldsRequired(d) ==
    /\ isStr(Field(d, "version")) /\ d.version.v \in {V01, V02}
    /\ isStr(Field(d, "height"))
    /\ isStr(Field(d, "prevMinerId"))
    /\ isStr(Field(d, "prevMinerIdSig"))
    /\ isStr(Field(d, "minerId"))
    /\ isObject(Field(d, "vctx"))
    /\ isStr(Field(Field(d, "vctx"), "txId"))
    /\ isNum(Field(Field(d, "vctx"), "vout"))

\* C12 as stated: for a static document that lacks a required field or has
\* it with another type, SetStaticCoinbaseDocument returns false (the
\* diagnostic is written and the scan goes on with the next output) and no
\* signature of the output is verified.
C12_MissingFieldReturnsFalse ==
    \A n \in Outputs :
        /\ HasText(n, 1)
        /\ ~StaticFieldsRequired(StaticText(n).doc)
        /\ Stepped(n, "static", "read")
        => /\ i > n
           /\ \E k \in 1..Len(log) : log[k].n = n
           /\ \A k \in 1..Len(calls) : calls[k].n # n

\* A member of a dynamic document is absent, or present with the type
\* asked for.
AbsentOr(d, name, typed(_)) == isNull(Field(d, name)) \/ typed(Field(d, name))

\* The optional members of a dynamic document are absent or well typed, and
\* a version that is present is a supported one.
DynamicOptionalFieldsOk(d) ==
    /\ AbsentOr(d, "version", LAMBDA v : isStr(v) /\ v.v \in {V01, V02})
    /\ AbsentOr(d, "height", isNum)
    /\ AbsentOr(d, "prevMinerId", isStr)
    /\ AbsentOr(d, "prevMinerIdSig", isStr)
    /\ AbsentOr(d, "minerId", isStr)
    /\ AbsentOr(d, "vctx", LAMBDA v : /\ isObject(v)
                                      /\ isStr(Field(v, "txId"))
                                      /\ isNum(Field(v, "vout")))

\* The document has none of the six optional members.
OnlyDynamicMinerId(d) ==
    \A name \in {"version", "height", "prevMinerId", "prevMinerIdSig", "minerId", "vctx"} :
        ~Exists(d, name)

\* C13: a dynamic document handed to the validation reaches the signature
\* verification exactly when dynamicMinerId is a string, every optional
\* member is absent or well typed (a version present being supported) and
\* a height present equals the block height; a document that does not is
\* rejected and the scan goes on with the next output.  In particular a
\* document with dynamicMinerId alone passes, and one without a string
\* dynamicMinerId never does.
C13_DynamicValidation ==
    \A n \in Outputs :
        HasText(n, 3) /\ Stepped(n, "dynamic", "read") =>
            LET d == DynamicText(n).doc
                passes == /\ isStr(Field(d, "dynamicMinerId"))
                          /\ DynamicOptionalFieldsOk(d)
                          /\ isNum(Field(d, "height")) => d.height.n = blockHeight
            IN  /\ passes <=> CallsOf(n, "verify_dynamic") # {}
                /\ ~passes =>
                       /\ i > n
                       /\ \E k \in 1..Len(log) : log[k].n = n /\ log[k].ph = "dynamic"
                /\ isStr(Field(d, "dynamicMinerId")) /\ OnlyDynamicMinerId(d) =>
                       CallsOf(n, "verify_dynamic") # {}

\* A dynamic document without any of the six optional members has been
\* accepted, after one without a string dynamicMinerId was rejected.
C13_Witness ==
    /\ Returned
    /\ HasText(i, 3) /\ OnlyDynamicMinerId(DynamicText(i).doc)
    /\ \E n \in 0..(i - 1) :
          /\ HasText(n, 3) /\ Stepped(n, "dynamic", "read")
          /\ ~isStr(Field(DynamicText(n).doc, "dynamicMinerId"))

\* The contents of a string are an integer: decimal digits and nothing else.
WholeInteger(s) == Len(s) > 0 /\ \A k \in 1..Len(s) : IsDecDigit(s[k])

\* The static document of output n passed the height check: the check that
\* follows it has been made.
PassedStaticHeight(n) == Stepped(n, "static", "prevMinerId")

\* C14 as stated: a static document passes the height check only when its
\* height is a string whose contents are an integer equal to the block
\* height (a number never passes), and a dynamic document whose height is a
\* string is rejected without its signature being verified.
C14_HeightTypes ==
    \A n \in Outputs :
        /\ PassedStaticHeight(n) =>
              LET height == Field(StaticText(n).doc, "height")
              IN  /\ isStr(height)
                  /\ WholeInteger(height.v)
                  /\ DecValue(height.v) = blockHeight
        /\ (/\ HasText(n, 3)
            /\ Stepped(n, "dynamic", "read")
            /\ isStr(Field(DynamicText(n).doc, "height")))
           => i > n /\ CallsOf(n, "verify_dynamic") = {}

\* dataRefs as the protocol wants it: an object with refs an array whose
\* every element has brfcIds (an array of strings), txid (a string) and
\* vout (a number).
WellShapedDataRefs(dr) ==
    /\ isObject(dr)
    /\ isArray(Field(dr, "refs"))
    /\ \A k \in 1..Len(dr.refs.a) :
          LET r == dr.refs.a[k]
          IN  /\ isArray(Field(r, "brfcIds"))
              /\ \A j \in 1..Len(r.brfcIds.a) : isStr(r.brfcIds.a[j])
              /\ isStr(Field(r, "txid"))
              /\ isNum(Field(r, "vout"))

\* The static document of output n has dataRefs, not of that shape.
BadStaticDataRefs(n) ==
    /\ HasText(n, 1)
    /\ Exists(StaticText(n).doc, "dataRefs")
    /\ ~WellShapedDataRefs(StaticText(n).doc.dataRefs)

\* C15: a static document whose dataRefs is present and not of the required
\* shape is rejected with its output, also when both its signatures have
\* verified and some elements are well formed: the output is never
\* returned, the diagnostic is written and the scan goes on with the next
\* output.
C15_BadDataRefsRejectDocument ==
    \A n \in Outputs :
        BadStaticDataRefs(n) /\ Stepped(n, "static", "read") =>
            /\ i > n
            /\ \E k \in 1..Len(log) : log[k].n = n /\ log[k].ph = "static"
            /\ ~Stepped(n, "dynamic", "GetOp")

\* A document whose signatures both verified and whose dataRefs has a well
\* formed element followed by a malformed one has been rejected.
C15_Witness ==
    \E n \in Outputs :
        /\ BadStaticDataRefs(n)
        /\ StaticText(n).doc.dataRefs = FxRefsBad
        /\ Stepped(n, "static", "parseDataRefs")
        /\ \A k \in CallsOf(n, "verify_self") \cup CallsOf(n, "verify_link") : calls[k].ok
        /\ i > n

\* C16: the MinerId returned for an output with a dynamic segment has the
\* version, height, prevMinerId, prevMinerIdSig, minerId and vctx of the
\* static document of the script, the static text and static signature
\* retained at the static step, and, when the static document had data
\* refs attached, those data refs: the dynamic step changed none of them,
\* whatever the dynamic document carries.
C16_DynamicStepFrame ==
    Returned /\ HasDynamicSegment(i) =>
        LET s == StaticText(i).doc
            m == result.minerId
            c == m.coinbaseDocument_
        IN  /\ c.version = s.version.v
            /\ c.height = blockHeight
            /\ c.prevMinerId = s.prevMinerId.v
            /\ c.prevMinerIdSig = s.prevMinerIdSig
            /\ c.minerId = s.minerId.v
            /\ c.vctx = [txid |-> s.vctx.txId.v, n |-> s.vctx.vout.n]
            /\ m.staticDocumentJson_ = [t |-> "json", doc |-> s, fmt |-> "compact"]
            /\ m.signatureStaticDocument_ = StaticSig(i)
            /\ DataRefsOf(i, 1) = FxRefsA =>
                  c.dataRefs = [some |-> TRUE, refs |-> <<FxParsedRef("a", 0)>>]
            /\ c.dataRefs.some \/ c.dataRefs = [some |-> FALSE, refs |-> <<>>]

\* A MinerId is returned for an output whose dynamic document carries a
\* version and a minerId other than those of the static document.
C16_Witness ==
    /\ Returned
    /\ HasDynamicSegment(i)
    /\ isStr(Field(DynamicText(i).doc, "minerId"))
    /\ DynamicText(i).doc.minerId # StaticText(i).doc.minerId
    /\ DynamicText(i).doc.version # StaticText(i).doc.version

\* Element k of the script of output n is missing, cannot be extracted, or
\* is an empty buffer.
BadElement(n, k) ==
    \/ Len(Vout(n).ops) < k
    \/ Vout(n).ops[k] = [k |-> "bad"]
    \/ Vout(n).ops[k] = [k |-> "push", data |-> [t |-> "empty"]]

\* Output n has the marker and an element as above in its static pair, or,
\* with data after the static pair, in its dynamic pair.
Unusable(n) ==
    /\ Vout(n).marker
    /\ \/ BadElement(n, 1) \/ BadElement(n, 2)
       \/ Len(Vout(n).ops) > 2 /\ (BadElement(n, 3) \/ BadElement(n, 4))

\* The number of script elements the scan has asked for in output n.
GetOpCount(n) == Len(SelectSeq(trace, LAMBDA e : e.n = n /\ e.ev = "GetOp"))

\* C17: an output with a script element that cannot be extracted or an
\* empty buffer, in its static or its dynamic pair, is never returned, and
\* once the scan has started on it and is between outputs again (or has
\* ended without an exception) it is past it; an output returned as static
\* only had 2 elements extracted, and an output whose dynamic document was
\* handed to the parser had 4.
C17_UnusableCandidates ==
    \A n \in Outputs :
        /\ Unusable(n) =>
              /\ ~(Returned /\ i = n)
              /\ (/\ Stepped(n, "static", "GetOp")
                  /\ at \in {"for", "done"}
                  /\ result.state # "exception") => i > n
        /\ Returned /\ i = n /\ ~HasDynamicSegment(n) => GetOpCount(n) = 2
        /\ Returned /\ i = n /\ HasDynamicSegment(n) => GetOpCount(n) = 4
        /\ Stepped(n, "dynamic", "read") => GetOpCount(n) = 4

\* An output whose dynamic document is an empty buffer was passed over and
\* a later output with a dynamic segment is returned.
C17_Witness ==
    /\ Returned
    /\ HasDynamicSegment(i)
    /\ \E n \in 0..(i - 1) :
          /\ Unusable(n)
          /\ HasText(n, 1)
          /\ Len(Vout(n).ops) > 2
          /\ Vout(n).ops[3] = [k |-> "push", data |-> [t |-> "empty"]]
          /\ Stepped(n, "dynamic", "GetOp")

\* The number of diagnostics written for output n.
LogCount(n) == Len(SelectSeq(log, LAMBDA e : e.n = n))

\* The evaluation of output n is over.
Evaluated(n) == i > n \/ (at = "done" /\ i = n)

\* C18 as stated: an output without the marker has no diagnostic; an output
\* with the marker whose evaluation is over has none when it is the one
\* returned and exactly one when it is not.
C18_DiagnosticsPolicy ==
    \A n \in Outputs :
        /\ ~Vout(n).marker => LogCount(n) = 0
        /\ Vout(n).marker /\ Evaluated(n) =>
              LogCount(n) = IF Returned /\ i = n THEN 0 ELSE 1

\* Output n reached Accepted: its static document passed every check and,
\* with data after the static pair, so did its dynamic document.
Accepted(n) ==
    /\ Stepped(n, "static", "parseDataRefs")
    /\ \A k \in 1..Len(log) : log[k].n # n
    /\ HasDynamicSegment(n) => \E k \in CallsOf(n, "verify_dynamic") : calls[k].ok

\* C19 as stated: when FindMinerId has ended, it has returned "no identity
\* found" exactly when no output reached Accepted.
C19_NoneIffNothingAccepted ==
    at = "done" => (result.state = "none" <=> \A n \in Outputs : ~Accepted(n))

\* C20 as stated: the MinerId returned for an output whose static document
\* has dataRefs with an empty refs list reports data refs that are provided
\* and empty, whatever data refs a dynamic document brings.
C20_EmptyRefsKeptDistinct ==
    Returned /\ DataRefsOf(i, 1) = FxRefsEmpty =>
        result.minerId.coinbaseDocument_.dataRefs = [some |-> TRUE, refs |-> <<>>]

\* The MinerId FindMinerId returns for the transaction made of output `out`
\* preceded by outputs without the marker: these leave the MinerId object
\* in its initial state, and the evaluation of `out` is the static call on
\* that object followed, with data after the static pair, by the dynamic
\* call.
ScannedAlone(out, height) ==
    LET static == parseCoinbaseDocument(EmptyMinerId, out.ops[1].data, out.ops[2].data,
                                        height, FALSE)
    IN  IF Len(out.ops) = 2 THEN static.self
        ELSE parseCoinbaseDocument(static.self, out.ops[3].data, out.ops[4].data,
                                   height, TRUE).self

\* An earlier output left the MinerId object populated: its static segment
\* was accepted and its dynamic segment failed at extraction.
LeftPopulated(n) ==
    /\ Stepped(n, "static", "parseDataRefs")
    /\ \E k \in 1..Len(log) :
          /\ log[k].n = n
          /\ log[k].ph = "dynamic"
          /\ log[k].msg \in {"Failed to extract data for dynamic document of minerId",
                             "Failed to extract signature of dynamic document of minerId"}

\* C21: the MinerId returned is the one the scan returns when every output
\* before the accepted one is replaced by an output without the marker.
C21_DependsOnAcceptedOutputOnly ==
    Returned => result.minerId = ScannedAlone(Vout(i), blockHeight)

\* A MinerId is returned after an earlier output left the object populated
\* with a document that has data refs.
C21_Witness ==
    /\ Returned
    /\ \E n \in 0..(i - 1) :
          /\ LeftPopulated(n)
          /\ DataRefsOf(n, 1) = FxRefsA
          /\ DataRefsOf(i, 1) = Null

\* C22 as stated: a signature of a static document is verified only when
\* the document has passed all its schema checks, those of dataRefs
\* included; the linkage signature is verified only after the
\* self-signature verified; and a step of the dynamic segment is taken only
\* after both static signatures verified.
C22_StepOrder ==
    /\ \A k \in 1..Len(calls) :
          calls[k].step \in {"verify_self", "verify_link"} =>
              /\ StaticFieldsRequired(StaticText(calls[k].n).doc)
              /\ ~BadStaticDataRefs(calls[k].n)
    /\ \A k \in 1..Len(calls) :
          calls[k].step = "verify_link" =>
              \E j \in 1..(k - 1) :
                  calls[j].n = calls[k].n /\ calls[j].step = "verify_self" /\ calls[j].ok
    /\ \A k \in 1..Len(trace) :
          trace[k].ph = "dynamic" =>
              /\ \E j \in CallsOf(trace[k].n, "verify_self") : calls[j].ok
              /\ \E j \in CallsOf(trace[k].n, "verify_link") : calls[j].ok

\* The call of SetStaticCoinbaseDocument (dynamic FALSE) or
\* SetDynamicCoinbaseDocument (dynamic TRUE) the scan is about to make on
\* the document and signature it extracted.
PendingCall(dynamic) ==
    IF dynamic
    THEN SetDynamicCoinbaseDocument(minerId, Read(msgBytes), signature, blockHeight)
    ELSE SetStaticCoinbaseDocument(minerId, Read(msgBytes), signature, blockHeight)

\* C23: whenever SetStaticCoinbaseDocument or SetDynamicCoinbaseDocument
\* returns false, the MinerId object it was called on is exactly as it was
\* before the call: document, static text and static signature.
C23_FailedCallLeavesMinerId ==
    /\ (at = "static_parse" /\ ReadOk(msgBytes) /\ PendingCall(FALSE).ret = "false")
           => PendingCall(FALSE).self = minerId
    /\ (at = "dyn_parse" /\ ReadOk(msgBytes) /\ PendingCall(TRUE).ret = "false")
           => PendingCall(TRUE).self = minerId

\* A dynamic call that fails on an object the static call populated, in a
\* scan where the static call of an earlier output failed at its linkage
\* signature.
C23_Witness ==
    /\ at = "dyn_parse" /\ ReadOk(msgBytes)
    /\ PendingCall(TRUE).ret = "false"
    /\ minerId # EmptyMinerId
    /\ \E n \in 0..(i - 1) :
          /\ Stepped(n, "static", "verify_link")
          /\ \E k \in CallsOf(n, "verify_link") : ~calls[k].ok

\* C24: the static text and the static signature that enter the message of
\* the dynamic signature of an output are those of the static document of
\* that same output (the text as the program serializes it), never those of
\* an earlier output.
C24_DynamicMessageOfSameOutput ==
    \A k \in 1..Len(calls) :
        calls[k].step = "verify_dynamic" =>
            /\ calls[k].msg.parts[1] = Write(StaticText(calls[k].n).doc)
            /\ calls[k].msg.parts[2] = StaticSig(calls[k].n)

\* The dynamic signature of an output is verified after an earlier output,
\* with another static document and signature, left the MinerId populated.
C24_Witness ==
    \E k \in 1..Len(calls) :
        /\ calls[k].step = "verify_dynamic"
        /\ \E n \in 0..(calls[k].n - 1) :
              /\ LeftPopulated(n)
              /\ StaticText(n).doc # StaticText(calls[k].n).doc
              /\ StaticSig(n) # StaticSig(calls[k].n)

\* C25: the data refs of a CoinbaseDocument are set at most once: the static
\* call sets them, if at all, on the document it has just constructed, and
\* the dynamic call sets them only on a document that has none.
C25_DataRefsSetAtMostOnce ==
    /\ (at = "static_parse" /\ ReadOk(msgBytes) /\ PendingCall(FALSE).ret = "true") =>
           LET parsed == parseDataRefs(Read(msgBytes)).refs
           IN  PendingCall(FALSE).self.coinbaseDocument_.dataRefs =
                   IF Len(parsed) # 0 THEN [some |-> TRUE, refs |-> parsed] ELSE NoDataRefs
    /\ (at = "dyn_parse" /\ ReadOk(msgBytes)) =>
           \/ PendingCall(TRUE).self.coinbaseDocument_.dataRefs = minerId.coinbaseDocument_.dataRefs
           \/ ~HasDataRefs(minerId)

\* The dynamic call succeeds on a document with data refs B while the
\* current document has the data refs A of the static document.
C25_Witness ==
    /\ at = "dyn_parse" /\ ReadOk(msgBytes)
    /\ PendingCall(TRUE).ret = "true"
    /\ DataRefsOf(i, 1) = FxRefsA /\ DataRefsOf(i, 3) = FxRefsB
    /\ HasDataRefs(minerId)

\* The dynamic document of output n has dataRefs, not of the required shape.
BadDynamicDataRefs(n) ==
    /\ HasText(n, 3)
    /\ Exists(DynamicText(n).doc, "dataRefs")
    /\ ~WellShapedDataRefs(DynamicText(n).doc.dataRefs)

\* C26 as stated: for an output whose dynamic signature verified and whose
\* dynamic document has a malformed dataRefs: when the accepted static
\* document carries dataRefs, the dynamic dataRefs is not parsed and the
\* output is the one returned; when the static document carries none, the
\* output is rejected.
C26_DynamicDataRefsIgnored ==
    \A n \in Outputs :
        (/\ Evaluated(n)
         /\ BadDynamicDataRefs(n)
         /\ \E k \in CallsOf(n, "verify_dynamic") : calls[k].ok) =>
            IF Exists(StaticText(n).doc, "dataRefs")
            THEN /\ ~Stepped(n, "dynamic", "parseDataRefs")
                 /\ Returned /\ i = n
            ELSE /\ Stepped(n, "dynamic", "parseDataRefs")
                 /\ ~(Returned /\ i = n)

\* The number of times the scan has started the evaluation of output n.
EvaluationsOf(n) == Len(SelectSeq(trace, LAMBDA e : e.n = n /\ e.ev = "IsMinerId"))

\* C27 as stated: every output is evaluated at most once and the outputs
\* are evaluated in increasing order of index; when the scan has ended, it
\* has ended at the first acceptance, or after the last output with every
\* output evaluated once.
C27_ScanEndsAtAcceptanceOrLastOutput ==
    /\ \A n \in Outputs : EvaluationsOf(n) <= 1
    /\ \A j, k \in 1..Len(trace) : j < k => trace[j].n <= trace[k].n
    /\ at = "done" =>
          \/ Returned /\ \A n \in Outputs : EvaluationsOf(n) = (IF n <= i THEN 1 ELSE 0)
          \/ /\ result.state = "none"
             /\ i = Len(tx)
             /\ \A n \in Outputs : EvaluationsOf(n) = 1

\* The static document of output n declares a version outside the
\* supported set.
UnsupportedVersion(n) ==
    /\ HasText(n, 1)
    /\ isStr(Field(StaticText(n).doc, "version"))
    /\ StaticText(n).doc.version.v \notin SUPPORTED_VERSIONS

\* C28: the "Unsupported version in miner id" rejection of the linkage step
\* never happens: every document that reaches the linkage step has version
\* "0.1" or "0.2", and a document of an unsupported version is rejected by
\* the field check, with the diagnostic of that check, before any signature
\* is verified.
C28_UnsupportedVersionBranchUnreachable ==
    /\ \A k \in 1..Len(log) : log[k].msg # "Unsupported version in miner id"
    /\ \A n \in Outputs :
          Stepped(n, "static", "version_branch") =>
              StaticText(n).doc.version.v \in {V01, V02}
    /\ \A n \in Outputs :
          (UnsupportedVersion(n) /\ Evaluated(n)) =>
              /\ ~Stepped(n, "static", "version_branch")
              /\ \A k \in 1..Len(calls) : calls[k].n # n
              /\ \E k \in 1..Len(log) :
                    /\ log[k].n = n
                    /\ log[k].msg = "One or more required parameters from coinbase document missing or incorrect"
              /\ ~(Returned /\ i = n)

\* A document of version "0.3" with valid signatures was rejected, and a
\* later document of a supported version passed the linkage step and is
\* returned.
C28_Witness ==
    /\ Returned
    /\ StaticText(i).doc.version.v \in SUPPORTED_VERSIONS
    /\ Stepped(i, "static", "version_branch")
    /\ \E n \in 0..(i - 1) : UnsupportedVersion(n) /\ StaticText(n).doc.version.v = V03

=============================================================================
